---- MODULE Spec2Model ----
(***************************************************************************)
(* Model of rh.app.rpc (src/randh/app/rpc/__init__.py): the process-wide   *)
(* registries _SERVERS and _OPENEDPORTS, the operations startServer,       *)
(* closeServer, closeAllServers and portFromApp that act on them, the      *)
(* background listeners made by rpcutils.serveBgThreaded, and the client   *)
(* call importRemoteModules; and of rh.app.talk                            *)
(* (src/randh/app/talk/__init__.py): a Session object, its command and     *)
(* close calls, and the application at the other end of its stream.        *)
(*                                                                         *)
(* Calling threads run the operations statement by statement (pc, frame);  *)
(* other processes bind and release ports (extHeld); each listener's       *)
(* background thread moves on its own.                                     *)
(***************************************************************************)
EXTENDS Integers, Sequences, FiniteSets, TLC

VARIABLES
    servers,    \* _SERVERS: port -> index of the listener in listeners
    opened,     \* _OPENEDPORTS: app -> (port -> sequence of pids)
    listeners,  \* every [ts, topThread] pair serveBgThreaded has made
    extHeld,    \* ports other processes are listening on
    callers,    \* the threads of this process that call the module
    left,       \* per caller: the calls it may still make (-1: any number)
    pc,         \* per caller: the statement it is at
    frame,      \* per caller: arguments, locals and outcome of its call
    remote,     \* the server importRemoteModules connects to
    avail,      \* the module names that server can resolve
    ipc,        \* importRemoteModules: the statement the call is at
    iframe,     \* importRemoteModules: arguments, locals and outcome
    session,    \* rh.app.talk: the attributes of the Session object
    tpc,        \* rh.app.talk: the statement the caller of the session is at
    tframe,     \* rh.app.talk: arguments, locals and outcome of its call
    peer        \* rh.app.talk: the application and the stream to and from it

regVars == <<servers, opened, listeners, extHeld, callers, left, pc, frame>>

impVars == <<remote, avail, ipc, iframe>>

talkVars == <<session, tpc, tframe, peer>>

vars == <<regVars, impVars, talkVars>>

(***************************************************************************)
(* Bounds of the model.                                                    *)
(***************************************************************************)
MaxPort == 2

MaxListeners == 2

MaxCalls == 2

MaxRetries == 6

MaxTalkCalls == 3

Ports == 1 .. MaxPort

Apps == {"houdini", "crom"}

Pid == "pid"

Names == {"a", "b"}

\* line 47
MAX_TRIES == 8

\* line 48
HOU_SLEEP_TIMES == <<1, 3, 5, 10>>

(***************************************************************************)
(* Python dicts as functions with a finite domain.  The outcome of a call  *)
(* is the exception class and message it raised, or "none" and the value   *)
(* it returned (<<>> for None), always as a sequence.                      *)
(***************************************************************************)
EmptyDict == <<>>

Put(d, k, v) == [x \in (DOMAIN d) \cup {k} |-> IF x = k THEN v ELSE d[x]]

Del(d, k) == [x \in (DOMAIN d) \ {k} |-> d[x]]

HasKey(d, k) == k \in DOMAIN d

NoRes == [exc |-> "none", msg |-> "pending", val |-> <<>>]

Returned(v) == [exc |-> "none", msg |-> "return", val |-> v]

Raised(e, m, v) == [exc |-> e, msg |-> m, val |-> v]

(***************************************************************************)
(* Sockets.  _bindPort and ThreadedServer both set SO_REUSEADDR, so a bind *)
(* fails only against a socket that is listening: another process's, or a  *)
(* listener of this process whose thread has reached its accept loop.      *)
(***************************************************************************)
LIds == 1 .. Len(listeners)

Live(l) == ~listeners[l].closed /\ listeners[l].phase # "exited"

Listening(p) ==
    \E l \in LIds : listeners[l].port = p /\ listeners[l].phase = "accepting"
                    /\ ~listeners[l].closed

Bound(p) == \E l \in LIds : listeners[l].port = p /\ Live(l)

BindFails(p) == p \in extHeld \/ Listening(p)

FreePorts == {p \in Ports : ~BindFails(p) /\ ~Bound(p)}

(***************************************************************************)
(* The frame of a call.  pre is the state the call started in, kept when   *)
(* the caller is the only thread (with a second thread the state changes   *)
(* under the call, and before and after are not the call's doing);         *)
(* quietEnv says that no other process bound or released a port during     *)
(* the call.                                                               *)
(***************************************************************************)
ClosedSet == {l \in LIds : listeners[l].closed}

NoSnapshot ==
    [servers |-> EmptyDict, opened |-> EmptyDict, made |-> 0,
     closed |-> {}, ext |-> {}]

Snapshot ==
    IF Cardinality(callers) = 1
    THEN [servers |-> servers, opened |-> opened, made |-> Len(listeners),
          closed |-> ClosedSet, ext |-> extHeld]
    ELSE NoSnapshot

NewFrame(op, app, port, nodup) ==
    [op |-> op, app |-> app, port |-> port, nodup |-> nodup,
     p |-> port, i |-> 0, tries |-> 0, tried |-> <<>>, allocs |-> 0,
     sock |-> "none",
     l |-> 0, todo |-> {}, pre |-> Snapshot, res |-> NoRes,
     quietEnv |-> TRUE]

IdleFrame ==
    [op |-> "none", app |-> "houdini", port |-> 0, nodup |-> TRUE,
     p |-> 0, i |-> 0, tries |-> 0, tried |-> <<>>, allocs |-> 0,
     sock |-> "none",
     l |-> 0, todo |-> {},
     pre |-> NoSnapshot, res |-> NoRes, quietEnv |-> TRUE]

AtRest(t) == pc[t] \in {"idle", "done"}

CanCall(t) == AtRest(t) /\ left[t] # 0

Called(t) == [left EXCEPT ![t] = IF @ > 0 THEN @ - 1 ELSE @]

InStart(t) == pc[t] \in {"bind", "serve", "register"}

Finish(t, f, r) ==
    /\ pc' = [pc EXCEPT ![t] = "done"]
    /\ frame' = [frame EXCEPT ![t] = [f EXCEPT !.res = r]]

Goto(t, f, label) ==
    /\ pc' = [pc EXCEPT ![t] = label]
    /\ frame' = [frame EXCEPT ![t] = f]

(***************************************************************************)
(* Init: both registries empty, as at import of the module.                *)
(***************************************************************************)
IdleImport ==
    [modules |-> [list |-> FALSE, names |-> <<>>], arg |-> 0, retries |-> 0,
     tries |-> 0, connection |-> FALSE, houTry |-> 0,
     outcomes |-> <<>>, misses |-> <<>>, slept |-> <<>>, res |-> NoRes]

InitWith(T, E, n) ==
    /\ servers = EmptyDict
    /\ opened = EmptyDict
    /\ listeners = <<>>
    /\ extHeld \in E
    /\ callers = T
    /\ left = [t \in T |-> n]
    /\ pc = [t \in T |-> "idle"]
    /\ frame = [t \in T |-> IdleFrame]

InitClient(R, A) ==
    /\ remote \in R
    /\ avail \in A
    /\ ipc = "idle"
    /\ iframe = IdleImport

\* talk lines 190-201 and 411-412 / 499-500: the attributes of a new
\* session of the given class, both handles open
NewSession(kind) ==
    [kind |-> kind, reader |-> "open", writer |-> "open",
     lastCmd |-> "None", lastResponse |-> <<"None">>]

\* the locals of a call on the session; wrote, eof and quits are records of
\* what happened: the command of the call was written, readline returned
\* the empty string, the number of quit commands written so far
TalkFrame(op, cmd) ==
    [op |-> op, cmd |-> cmd, output |-> <<>>, wrote |-> FALSE, eof |-> FALSE,
     res |-> NoRes]

\* the application: running, the lines written to it that it has not read,
\* the lines it has written that the session has not read
NewPeer == [up |-> TRUE, inbox |-> <<>>, outbox |-> <<>>]

\* no session in use
InitNoTalk ==
    /\ session = NewSession("none")
    /\ tpc = "unused"
    /\ tframe = [left |-> 0, quits |-> 0, call |-> TalkFrame("none", "None")]
    /\ peer = NewPeer

\* talk line 205: the constructor is about to call _receive()
InitSession(K, n) ==
    /\ session \in {NewSession(k) : k \in K}
    /\ tpc = "senddone"
    /\ tframe = [left |-> n, quits |-> 0, call |-> TalkFrame("init", "None")]
    /\ peer = NewPeer

Init ==
    /\ InitWith({1}, SUBSET Ports, -1)
    /\ InitClient({"down"}, {{}})
    /\ InitNoTalk

InitConc ==
    /\ InitWith({1, 2}, {{}}, MaxCalls)
    /\ InitClient({"down"}, {{}})
    /\ InitNoTalk

InitImport ==
    /\ InitWith({}, {{}}, 0)
    /\ InitClient({"down", "starting", "accepting"}, SUBSET Names)
    /\ InitNoTalk

InitTalk ==
    /\ InitWith({}, {{}}, 0)
    /\ InitClient({"down"}, {{}})
    /\ InitSession({"file", "port"}, MaxTalkCalls)

(***************************************************************************)
(* startServer(app, port, quiet, nodup)                                    *)
(***************************************************************************)
\* the check as "the app has more than one port"
Suppressed_MoreThanOne(app, nodup) ==
    nodup /\ HasKey(opened, app) /\ Cardinality(DOMAIN opened[app]) > 1

\* lines 117-118: if nodup: if _OPENEDPORTS.has_key(app) and _OPENEDPORTS[app]
Suppressed(app, nodup) ==
    nodup /\ HasKey(opened, app) /\ DOMAIN opened[app] # {}

\* the duplicate check as "the app has an entry in _OPENEDPORTS"
StartCall_AnyEntry(t, app, port, nodup) ==
    /\ CanCall(t)
    /\ LET f == NewFrame("start", app, port, nodup)
       IN  IF nodup /\ HasKey(opened, app)
           THEN Finish(t, f, Returned(<<>>))
           ELSE /\ Len(listeners) + Cardinality({u \in callers : InStart(u)})
                      < MaxListeners
                /\ Goto(t, f, "bind")
    /\ left' = Called(t)
    /\ UNCHANGED <<servers, opened, listeners, extHeld, callers, impVars, talkVars>>

\* lines 116-121: the duplicate check; a suppressed call returns None
StartCall(t, app, port, nodup) ==
    /\ CanCall(t)
    /\ LET f == NewFrame("start", app, port, nodup)
       IN  IF Suppressed(app, nodup)
           THEN Finish(t, f, Returned(<<>>))
           ELSE /\ Len(listeners) + Cardinality({u \in callers : InStart(u)})
                      < MaxListeners
                /\ Goto(t, f, "bind")
    /\ left' = Called(t)
    /\ UNCHANGED <<servers, opened, listeners, extHeld, callers, impVars, talkVars>>

\* lines 63-74: bind((host, portNum)); port 0 lets the kernel pick
BindPort(portNum) ==
    IF portNum = 0
    THEN IF FreePorts = {} THEN {0} ELSE FreePorts
    ELSE IF BindFails(portNum) THEN {0} ELSE {portNum}

\* lines 64-72: the socket _bindPort created, when _bindPort is left.
\* sock.close() of line 72 is reached only when bind succeeded (q # 0); the
\* raise of line 69 leaves with the socket open, held by the frame that the
\* traceback of the exception refers to
SockAfterBind(q) == IF q = 0 THEN "open" ELSE "closed"

\* lines 123-131: the number of tries and the one call of _bindPort
StartBind(t) ==
    /\ pc[t] = "bind"
    /\ LET f == frame[t]
           n == IF f.port = 0 THEN 5 ELSE 1
       IN  \E q \in BindPort(f.port) :
              IF q = 0
              THEN Finish(t, [f EXCEPT !.tries = n, !.allocs = 1,
                                       !.sock = SockAfterBind(q)],
                          Raised("UsedOrReservedRPCError", "bind", <<f.port>>))
              ELSE Goto(t, [f EXCEPT !.tries = n, !.allocs = 1,
                                     !.sock = SockAfterBind(q),
                                     !.p = q, !.i = 1], "serve")
    /\ UNCHANGED <<servers, opened, listeners, extHeld, callers, left, impVars, talkVars>>

\* utils lines 100-112: ThreadedServer binds in its constructor, then the
\* thread is started; the thread has not reached listen() yet
NewListener(p) ==
    [port |-> p, phase |-> "starting", closed |-> FALSE]

\* lines 154-159: the except clause, the next turn of the loop, the raise
StartFailed(t, f) ==
    LET g == [f EXCEPT !.tried = Append(f.tried, f.p)]
    IN  IF f.i < f.tries
        THEN Goto(t, [g EXCEPT !.i = f.i + 1], "serve")
        ELSE Finish(t, g, Raised("RPCError", "Server start fail", g.tried))

\* the port recorded under the app before the listener is known to run
StartServe_RecordFirst(t) ==
    /\ pc[t] = "serve"
    /\ LET f == frame[t]
       IN  IF BindFails(f.p)
           THEN /\ StartFailed(t, f)
                /\ opened' = Put(opened, f.app,
                      Put(IF HasKey(opened, f.app) THEN opened[f.app]
                          ELSE EmptyDict, f.p, <<Pid>>))
                /\ UNCHANGED <<servers, listeners>>
           ELSE /\ Len(listeners) < MaxListeners
                /\ listeners' = Append(listeners, NewListener(f.p))
                /\ servers' = Put(servers, f.p, Len(listeners) + 1)
                /\ Goto(t, f, "register")
                /\ UNCHANGED opened
    /\ UNCHANGED <<extHeld, callers, left, impVars, talkVars>>

\* line 148: _SERVERS[port] = rpcutils.serveBgThreaded(options)
StartServe(t) ==
    /\ pc[t] = "serve"
    /\ LET f == frame[t]
       IN  IF BindFails(f.p)
           THEN /\ StartFailed(t, f)
                /\ UNCHANGED <<servers, listeners>>
           ELSE /\ Len(listeners) < MaxListeners
                /\ listeners' = Append(listeners, NewListener(f.p))
                /\ servers' = Put(servers, f.p, Len(listeners) + 1)
                /\ Goto(t, f, "register")
    /\ UNCHANGED <<opened, extHeld, callers, left, impVars, talkVars>>

\* line 152 storing a fresh list of pids where it should append
Register_Overwrite(app, p) ==
    LET ports == IF HasKey(opened, app) THEN opened[app] ELSE EmptyDict
    IN  Put(opened, app, Put(ports, p, <<Pid>>))

\* lines 150-152
Register(app, p) ==
    LET ports == IF HasKey(opened, app) THEN opened[app] ELSE EmptyDict
        pids == IF HasKey(ports, p) THEN ports[p] ELSE <<>>
    IN  Put(opened, app, Put(ports, p, Append(pids, Pid)))

\* lines 150-153: record the port under the app, return _SERVERS[port]
\* (a KeyError of that lookup is caught by the except clause of line 154)
StartRegister(t) ==
    /\ pc[t] = "register"
    /\ LET f == frame[t]
       IN  /\ opened' = Register(f.app, f.p)
           /\ IF HasKey(servers, f.p)
              THEN Finish(t, f, Returned(<<servers[f.p]>>))
              ELSE StartFailed(t, f)
    /\ UNCHANGED <<servers, listeners, extHeld, callers, left, impVars, talkVars>>

(***************************************************************************)
(* closeServer(port)                                                       *)
(***************************************************************************)
\* line 164: (threadedServer, topThread) = _SERVERS[port]
CloseLookup(t, f, port) ==
    IF HasKey(servers, port)
    THEN Goto(t, [f EXCEPT !.p = port, !.l = servers[port]], "stop")
    ELSE Finish(t, [f EXCEPT !.p = port], Raised("KeyError", "_SERVERS", <<port>>))

CloseCall(t, port) ==
    /\ CanCall(t)
    /\ CloseLookup(t, NewFrame("close", "houdini", port, TRUE), port)
    /\ left' = Called(t)
    /\ UNCHANGED <<servers, opened, listeners, extHeld, callers, impVars, talkVars>>

\* close() reaching every listener of _SERVERS
CloseStop_Every(t) ==
    /\ pc[t] = "stop"
    /\ listeners' = [l \in LIds |->
          IF \E p \in DOMAIN servers : servers[p] = l
          THEN [listeners[l] EXCEPT !.closed = TRUE] ELSE listeners[l]]
    /\ Goto(t, frame[t], "join")
    /\ UNCHANGED <<servers, opened, extHeld, callers, left, impVars, talkVars>>

\* line 165: threadedServer.close()
CloseStop(t) ==
    /\ pc[t] = "stop"
    /\ listeners' = [listeners EXCEPT ![frame[t].l].closed = TRUE]
    /\ Goto(t, frame[t], "join")
    /\ UNCHANGED <<servers, opened, extHeld, callers, left, impVars, talkVars>>

\* closeServer going on without waiting for the thread
CloseJoin_NoWait(t) ==
    /\ pc[t] = "join"
    /\ Goto(t, frame[t], "delapps")
    /\ UNCHANGED <<servers, opened, listeners, extHeld, callers, left, impVars, talkVars>>

\* line 166: topThread.join() returns once the thread has ended
CloseJoin(t) ==
    /\ pc[t] = "join"
    /\ listeners[frame[t].l].phase = "exited"
    /\ Goto(t, frame[t], "delapps")
    /\ UNCHANGED <<servers, opened, listeners, extHeld, callers, left, impVars, talkVars>>

\* the scan stopping at the first app
DelFromApps_FirstOnly(port) ==
    [a \in DOMAIN opened |->
        IF a = CHOOSE x \in DOMAIN opened : TRUE
        THEN Del(opened[a], port) ELSE opened[a]]

\* lines 167-169: delete the port under every app that lists it
DelFromApps(port) ==
    [a \in DOMAIN opened |-> Del(opened[a], port)]

\* closeServer deleting from _SERVERS where it should scan the apps
CloseDelApps_ServerFirst(t) ==
    /\ pc[t] = "delapps"
    /\ servers' = Del(servers, frame[t].p)
    /\ Goto(t, frame[t], "delserver")
    /\ UNCHANGED <<opened, listeners, extHeld, callers, left, impVars, talkVars>>

\* lines 167-169
CloseDelApps(t) ==
    /\ pc[t] = "delapps"
    /\ opened' = DelFromApps(frame[t].p)
    /\ Goto(t, frame[t], "delserver")
    /\ UNCHANGED <<servers, listeners, extHeld, callers, left, impVars, talkVars>>

\* closeServer without its del _SERVERS[port]
CloseDelServer_NoDel(t) ==
    /\ pc[t] = "delserver"
    /\ IF frame[t].op = "closeAll"
       THEN Goto(t, frame[t], "loop")
       ELSE Finish(t, frame[t], Returned(<<>>))
    /\ UNCHANGED <<servers, opened, listeners, extHeld, callers, left, impVars, talkVars>>

\* line 170: del _SERVERS[port]; closeAllServers goes on with its loop
CloseDelServer(t) ==
    /\ pc[t] = "delserver"
    /\ LET f == frame[t]
       IN  IF HasKey(servers, f.p)
           THEN /\ servers' = Del(servers, f.p)
                /\ IF f.op = "closeAll"
                   THEN Goto(t, f, "loop")
                   ELSE Finish(t, f, Returned(<<>>))
           ELSE /\ UNCHANGED servers
                /\ Finish(t, f, Raised("KeyError", "_SERVERS", <<f.p>>))
    /\ UNCHANGED <<opened, listeners, extHeld, callers, left, impVars, talkVars>>

(***************************************************************************)
(* closeAllServers()                                                       *)
(***************************************************************************)
\* lines 177-180: the snapshot of the keys; nothing to do when it is empty
CloseAllCall(t) ==
    /\ CanCall(t)
    /\ LET f == [NewFrame("closeAll", "houdini", 0, TRUE)
                    EXCEPT !.todo = DOMAIN servers]
       IN  IF f.todo = {}
           THEN Finish(t, f, Returned(<<>>))
           ELSE Goto(t, f, "loop")
    /\ left' = Called(t)
    /\ UNCHANGED <<servers, opened, listeners, extHeld, callers, impVars, talkVars>>

\* the loop of line 183 leaving after the first port it closed
CloseAllLoop_OnePort(t) ==
    /\ pc[t] = "loop"
    /\ LET f == frame[t]
       IN  IF f.todo = {} \/ f.todo # DOMAIN f.pre.servers
           THEN Finish(t, f, Returned(<<>>))
           ELSE \E port \in f.todo :
                   CloseLookup(t, [f EXCEPT !.todo = f.todo \ {port}], port)
    /\ UNCHANGED <<servers, opened, listeners, extHeld, callers, left, impVars, talkVars>>

\* lines 183-184: the next port of the snapshot, in the order of keys()
CloseAllLoop(t) ==
    /\ pc[t] = "loop"
    /\ LET f == frame[t]
       IN  IF f.todo = {}
           THEN Finish(t, f, Returned(<<>>))
           ELSE \E port \in f.todo :
                   CloseLookup(t, [f EXCEPT !.todo = f.todo \ {port}], port)
    /\ UNCHANGED <<servers, opened, listeners, extHeld, callers, left, impVars, talkVars>>

(***************************************************************************)
(* portFromApp(app), lines 77-87                                           *)
(***************************************************************************)
PortFromApp(app) ==
    IF HasKey(opened, app)
    THEN IF DOMAIN opened[app] = {}
         THEN {Raised("IndexError", "openports[0]", <<>>)}
         ELSE {Returned(<<port>>) : port \in DOMAIN opened[app]}
    ELSE {Raised("RPCError", "No port started", <<>>)}

PortFromAppCall(t, app) ==
    /\ CanCall(t)
    /\ \E r \in PortFromApp(app) :
          Finish(t, NewFrame("portFromApp", app, 0, TRUE), r)
    /\ left' = Called(t)
    /\ UNCHANGED <<servers, opened, listeners, extHeld, callers, impVars, talkVars>>

(***************************************************************************)
(* The background thread of a listener (utils line 109, target ts.start):  *)
(* listen, then accept until the server is closed.                         *)
(***************************************************************************)
ListenerRun(l) ==
    /\ listeners[l].phase = "starting"
    /\ listeners' = [listeners EXCEPT ![l].phase =
          IF listeners[l].closed \/ BindFails(listeners[l].port)
          THEN "exited" ELSE "accepting"]
    /\ UNCHANGED <<servers, opened, extHeld, callers, left, pc, frame, impVars, talkVars>>

ListenerExit(l) ==
    /\ listeners[l].phase = "accepting"
    /\ listeners[l].closed
    /\ listeners' = [listeners EXCEPT ![l].phase = "exited"]
    /\ UNCHANGED <<servers, opened, extHeld, callers, left, pc, frame, impVars, talkVars>>

(***************************************************************************)
(* Other processes take and give back ports.                               *)
(***************************************************************************)
Disturb == [t \in callers |->
              IF ~InStart(t) THEN frame[t]
              ELSE [frame[t] EXCEPT !.quietEnv = FALSE]]

ExternalBind(p) ==
    /\ p \notin extHeld
    /\ ~Bound(p)
    /\ extHeld' = extHeld \cup {p}
    /\ frame' = Disturb
    /\ UNCHANGED <<servers, opened, listeners, callers, left, pc, impVars, talkVars>>

ExternalRelease(p) ==
    /\ p \in extHeld
    /\ extHeld' = extHeld \ {p}
    /\ frame' = Disturb
    /\ UNCHANGED <<servers, opened, listeners, callers, left, pc, impVars, talkVars>>

(***************************************************************************)
(* The registry part of the program.                                       *)
(***************************************************************************)
NextCalls ==
    \/ \E t \in callers, app \in Apps, port \in {0} \cup Ports,
          nodup \in BOOLEAN : StartCall(t, app, port, nodup)
    \/ \E t \in callers : StartBind(t)
    \/ \E t \in callers : StartServe(t)
    \/ \E t \in callers : StartRegister(t)
    \/ \E t \in callers, port \in Ports : CloseCall(t, port)
    \/ \E t \in callers : CloseStop(t)
    \/ \E t \in callers : CloseJoin(t)
    \/ \E t \in callers : CloseDelApps(t)
    \/ \E t \in callers : CloseDelServer(t)
    \/ \E t \in callers : CloseAllCall(t)
    \/ \E t \in callers : CloseAllLoop(t)
    \/ \E t \in callers, app \in Apps : PortFromAppCall(t, app)
    \/ \E l \in LIds : ListenerRun(l)
    \/ \E l \in LIds : ListenerExit(l)

Next ==
    \/ NextCalls
    \/ \E p \in Ports : ExternalBind(p)
    \/ \E p \in Ports : ExternalRelease(p)

Spec == Init /\ [][Next]_vars

\* two calling threads of MaxCalls calls each, no other process at the ports
SpecConc == InitConc /\ [][NextCalls]_vars

(***************************************************************************)
(* importRemoteModules(port, modules, server, retries), lines 189-261.     *)
(* modules is any Python value: list says whether it is a list, names what *)
(* it holds (None and [] hold nothing).                                    *)
(***************************************************************************)
ModuleArgs ==
    {[list |-> FALSE, names |-> <<>>], [list |-> TRUE, names |-> <<>>],
     [list |-> FALSE, names |-> <<"a", "b">>],
     [list |-> TRUE, names |-> <<"a">>], [list |-> TRUE, names |-> <<"a", "b">>],
     [list |-> TRUE, names |-> <<"b", "a">>]}

IGoto(f, label) == ipc' = label /\ iframe' = f

IFinish(f, r) == ipc' = "done" /\ iframe' = [f EXCEPT !.res = r]

\* lines 212-215
ImportCall(m, r) ==
    /\ ipc \in {"idle", "done"}
    /\ IGoto([IdleImport EXCEPT !.modules = m, !.arg = r, !.retries = r,
                                !.tries = 1], "connect")
    /\ UNCHANGED <<regVars, talkVars, remote, avail>>

\* what rpyc.classic.connect(server, port) can do: only a server that is
\* accepting completes a connection
ConnectOutcomes ==
    IF remote = "accepting" THEN {"ok", "timeout", "ioerror", "eof"}
    ELSE {"timeout", "ioerror"}

\* line 254-255, and 0.5 at line 224: the sleeps, in tenths of a second
Tenths(seconds) == 10 * seconds

\* the test of line 221 as tries <= MAX_TRIES
MoreTries_OneMore(tries) == tries <= MAX_TRIES

\* line 221: if tries < MAX_TRIES
MoreTries(tries) == tries < MAX_TRIES

\* the except clause of line 220 catching every socket error
Retried_AnyIOError(o) == o \in {"timeout", "ioerror"}

\* line 220: except socket.timeout is the only clause that goes on
Retried(o) == o = "timeout"

\* lines 227-231: what the other except clauses raise
ConnectError(o) ==
    CASE o = "ioerror" -> Raised("RPCConnectError", "I/O error", <<>>)
      [] o = "eof" -> Raised("RPCConnectError", "EOF error", <<>>)
      [] OTHER -> Raised("RPCConnectError", "timeout", <<>>)

\* lines 217-234: one turn of the connect loop, or its end at line 217
ImportConnect ==
    /\ ipc = "connect"
    /\ IF iframe.tries <= MAX_TRIES
       THEN
       \E o \in ConnectOutcomes :
          LET f == [iframe EXCEPT !.outcomes = Append(@, o)]
          IN  CASE o = "ok" ->
                     IGoto([f EXCEPT !.connection = TRUE], "validate")
                [] o # "ok" /\ Retried(o) ->
                     IF MoreTries(f.tries)
                     THEN IGoto([f EXCEPT !.tries = @ + 1,
                                          !.slept = Append(@, 5)], "connect")
                     ELSE IFinish(f, Raised("RPCConnectError", "timeout", <<>>))
                [] OTHER -> IFinish(f, ConnectError(o))
       ELSE IGoto(iframe, "validate")
    /\ UNCHANGED <<regVars, talkVars, remote, avail>>

\* lines 236-242
InvalidModules(m) == Len(m.names) = 0 \/ ~m.list

\* retries used as given
ClampRetries_AsGiven(retries) == retries

\* lines 239-240: if retries < 1: retries = 1
ClampRetries(retries) == IF retries < 1 THEN 1 ELSE retries

ImportValidate ==
    /\ ipc = "validate"
    /\ IF InvalidModules(iframe.modules)
       THEN IFinish(iframe, Raised("ValueError", "modules", <<>>))
       ELSE IGoto([iframe EXCEPT !.retries = ClampRetries(@),
                                 !.houTry = 0], "resolve")
    /\ UNCHANGED <<regVars, talkVars, remote, avail>>

\* line 245: connection.modules[mod] for each mod in order; the first name
\* the server cannot resolve raises KeyError(name)
RECURSIVE FirstMissing(_)
FirstMissing(names) ==
    IF names = <<>> THEN "none"
    ELSE IF Head(names) \notin avail THEN Head(names)
    ELSE FirstMissing(Tail(names))

\* a reference kept from the first attempt
ModuleRef_FirstAttempt(name) == [module |-> name, attempt |-> 1]

\* line 245: the reference connection.modules[mod] gives in this attempt
ModuleRef(name) == [module |-> name, attempt |-> Len(iframe.misses) + 1]

ResolveAll(names) == [k \in 1 .. Len(names) |-> ModuleRef(names[k])]

\* index -1 of line 254 read as the first entry of the schedule
SleepTime_ClampFirst(houTry) ==
    IF houTry < Len(HOU_SLEEP_TIMES) THEN HOU_SLEEP_TIMES[houTry + 1]
    ELSE HOU_SLEEP_TIMES[1]

\* line 254: index = houTry if houTry < len(HOU_SLEEP_TIMES) else -1
SleepTime(houTry) ==
    IF houTry < Len(HOU_SLEEP_TIMES) THEN HOU_SLEEP_TIMES[houTry + 1]
    ELSE HOU_SLEEP_TIMES[Len(HOU_SLEEP_TIMES)]

\* the test of line 247 without its + 1
OutOfRetries_NoPlusOne(houTry, retries) == houTry >= retries

\* line 247
OutOfRetries(houTry, retries) == (houTry + 1) >= retries

\* lines 243-261: one turn of the resolve loop
ImportResolve ==
    /\ ipc = "resolve"
    /\ LET miss == FirstMissing(iframe.modules.names)
           f == [iframe EXCEPT !.misses = Append(@, miss)]
       IN  IF ~iframe.connection
           THEN IFinish(iframe, Raised("AttributeError", "modules", <<>>))
           ELSE IF iframe.houTry < iframe.retries
           THEN IF miss # "none"
                THEN IF OutOfRetries(iframe.houTry, iframe.retries)
                     THEN IFinish(f, Raised("NoSuchModuleRPCError", "KeyError",
                                            <<miss>>))
                     ELSE IGoto([f EXCEPT
                                   !.slept = Append(@,
                                       Tenths(SleepTime(iframe.houTry))),
                                   !.houTry = @ + 1], "resolve")
                ELSE IFinish([f EXCEPT !.houTry = iframe.retries],
                             Returned(ResolveAll(iframe.modules.names)))
           ELSE IFinish(iframe, Returned(<<>>))
    /\ UNCHANGED <<regVars, talkVars, remote, avail>>

\* the server's thread reaches its accept loop (utils lines 109-111)
RemoteUp ==
    /\ remote = "starting"
    /\ remote' = "accepting"
    /\ UNCHANGED <<regVars, talkVars, avail, ipc, iframe>>

\* the application behind the server finishes importing a module
ModuleLoaded(name) ==
    /\ name \notin avail
    /\ avail' = avail \cup {name}
    /\ UNCHANGED <<regVars, talkVars, remote, ipc, iframe>>

NextImport ==
    \/ \E m \in ModuleArgs, r \in -1 .. MaxRetries : ImportCall(m, r)
    \/ ImportConnect
    \/ ImportValidate
    \/ ImportResolve
    \/ RemoteUp
    \/ \E name \in Names : ModuleLoaded(name)

\* one client of a server that may still be starting
SpecImport == InitImport /\ [][NextImport]_vars

\* the thread that called importRemoteModules keeps running
SpecImportLive ==
    /\ SpecImport
    /\ WF_vars(ImportConnect) /\ WF_vars(ImportValidate)
    /\ WF_vars(ImportResolve)

(***************************************************************************)
(* Properties of the registry operations.                                  *)
(***************************************************************************)
Done(t, op) == pc[t] = "done" /\ frame[t].op = op

Ok(t) == frame[t].res.exc = "none"

PortsOf(reg, app) == IF HasKey(reg, app) THEN DOMAIN reg[app] ELSE {}

SameRegistries(t) ==
    /\ servers = frame[t].pre.servers
    /\ opened = frame[t].pre.opened

SameListeners(t) ==
    /\ Len(listeners) = frame[t].pre.made
    /\ ClosedSet = frame[t].pre.closed

C1_Suppressed ==
    \A t \in callers :
       (Done(t, "start") /\ frame[t].nodup
           /\ PortsOf(frame[t].pre.opened, frame[t].app) # {})
       => /\ frame[t].res = Returned(<<>>)
          /\ SameRegistries(t)
          /\ SameListeners(t)

C1_GrowsOnlyByDup ==
    \A a \in Apps :
       (PortsOf(opened, a) # {} /\ ~(PortsOf(opened', a) \subseteq PortsOf(opened, a)))
       => \E t \in callers :
             pc[t] = "register" /\ frame[t].app = a /\ ~frame[t].nodup

\* C1: a start(tag, preventDuplicates=True) made while the tag has a live
\* port returns without creating a listener and leaves _SERVERS and
\* _OPENEDPORTS as they were; a tag that has a port gets a second one only
\* from a start with preventDuplicates=False, so starts with
\* preventDuplicates=True leave it with exactly one.
C1_NoDuplicateStart == [] C1_Suppressed /\ [][C1_GrowsOnlyByDup]_vars

C1_Witness ==
    \E t \in callers :
       /\ Done(t, "start") /\ frame[t].nodup
       /\ Cardinality(PortsOf(frame[t].pre.opened, frame[t].app)) = 1
       /\ frame[t].res = Returned(<<>>)
       /\ Len(listeners) = 1

C2_Removed ==
    \A t \in callers :
       Done(t, "close") =>
          /\ HasKey(frame[t].pre.servers, frame[t].port) => Ok(t)
          /\ Ok(t) => /\ ~HasKey(servers, frame[t].port)
                      /\ \A a \in DOMAIN opened :
                            ~HasKey(opened[a], frame[t].port)
          /\ ~HasKey(frame[t].pre.servers, frame[t].port)
                => /\ frame[t].res.exc = "KeyError"
                   /\ frame[t].res.val = <<frame[t].port>>

C2_SecondClose ==
    \A t \in callers, port \in Ports :
       (Done(t, "close") /\ frame[t].port = port /\ Ok(t) /\ CloseCall(t, port))
       => (pc'[t] = "done" /\ frame'[t].res.exc = "KeyError")

\* C2: closeServer(port) of a registered port ends with the port under no
\* app of _OPENEDPORTS and not in _SERVERS, and a closeServer(port) called
\* next for the same port raises KeyError, the lookup error.
C2_CloseRemoves == [] C2_Removed /\ [][C2_SecondClose]_vars

C2_Witness ==
    \E t \in callers :
       /\ Done(t, "close") /\ Ok(t)
       /\ \A a \in Apps : frame[t].port \in PortsOf(frame[t].pre.opened, a)

C3_NoOp ==
    \A t \in callers :
       Done(t, "closeAll") =>
          /\ DOMAIN frame[t].pre.servers = {}
                => /\ frame[t].res = Returned(<<>>)
                   /\ SameRegistries(t)
                   /\ SameListeners(t)
          /\ Ok(t) => DOMAIN servers = {}

C3_Again ==
    \A t \in callers :
       (Done(t, "closeAll") /\ Ok(t) /\ CloseAllCall(t))
       => /\ pc'[t] = "done"
          /\ frame'[t].res = Returned(<<>>)
          /\ UNCHANGED <<servers, opened, listeners>>

\* C3: closeAllServers() called with nothing registered (so also when no
\* listener was ever started) returns None and changes neither registry nor
\* any listener; a closeAllServers() that returned leaves _SERVERS empty, and
\* the closeAllServers() called next returns at once and changes nothing.
C3_CloseAllIdempotent == [] C3_NoOp /\ [][C3_Again]_vars

C3_Witness ==
    \E t \in callers :
       /\ Done(t, "closeAll") /\ Ok(t)
       /\ DOMAIN frame[t].pre.servers = {}
       /\ frame[t].pre.closed # {}

StartFail(tried) == Raised("RPCError", "Server start fail", tried)

Distinct(seq) ==
    \A j, k \in 1 .. Len(seq) : j # k => seq[j] # seq[k]

\* C4: a start with an explicit port P that another process holds at the
\* call and throughout it raises the "Server start fail" RPCError whose
\* list of tried ports is exactly <<P>>, after one attempt, and no other
\* error.
C4_ExplicitPortHeld ==
    \A t \in callers :
       (Done(t, "start") /\ frame[t].allocs > 0 /\ frame[t].port # 0
           /\ frame[t].port \in frame[t].pre.ext /\ frame[t].quietEnv)
       => frame[t].res = StartFail(<<frame[t].port>>)

\* C5: a start without a port makes at most 5 attempts and allocates a
\* port for each of them; when it succeeds on attempt N+1 the N ports
\* tried before are listed, and when it fails it lists 5 distinct ports.
C5_FreshPortPerAttempt ==
    \A t \in callers :
       (Done(t, "start") /\ frame[t].port = 0 /\ frame[t].i > 0)
       => /\ frame[t].i <= 5
          /\ frame[t].allocs = frame[t].i
          /\ Ok(t) => Len(frame[t].tried) = frame[t].i - 1
          /\ ~Ok(t) => /\ frame[t].res = StartFail(frame[t].tried)
                       /\ Len(frame[t].tried) = 5
                       /\ Distinct(frame[t].tried)

\* C9: when closeAllServers() ends, by return or by exception, it has
\* attempted closeServer for every port of its snapshot.
C9_CloseAllAttemptsAll ==
    \A t \in callers : Done(t, "closeAll") => frame[t].todo = {}

\* C10: portFromApp(app) raises the "No port started" RPCError whenever
\* the app has no port registered, whether the app was never started or
\* all its ports were closed.
C10_NoServerForApp ==
    \A t \in callers :
       (Done(t, "portFromApp")
           /\ PortsOf(frame[t].pre.opened, frame[t].app) = {})
       => frame[t].res = Raised("RPCError", "No port started", <<>>)

(***************************************************************************)
(* Properties of importRemoteModules.                                      *)
(***************************************************************************)
Clamped(r) == IF r < 1 THEN 1 ELSE r

C6_Resolved ==
    (ipc = "done" /\ iframe.misses # <<>>) =>
       LET n == Len(iframe.misses)
           names == iframe.modules.names
       IN  /\ n <= Clamped(iframe.arg)
           /\ \A k \in 1 .. n - 1 : iframe.misses[k] # "none"
           /\ iframe.misses[n] = "none"
                 => iframe.res = Returned([k \in 1 .. Len(names) |->
                                     [module |-> names[k], attempt |-> n]])
           /\ iframe.misses[n] # "none"
                 => /\ n = Clamped(iframe.arg)
                    /\ iframe.res = Raised("NoSuchModuleRPCError", "KeyError",
                                           <<iframe.misses[n]>>)

C6_NamesB ==
    (ipc = "done" /\ iframe.modules.names = <<"a", "b">> /\ "b" \notin avail
        /\ "a" \in avail /\ iframe.misses # <<>>
        /\ iframe.misses[Len(iframe.misses)] # "a")
    => iframe.res.val = <<"b">>

\* C6: the resolve loop stops at the first attempt that resolves every
\* name and returns one reference per name, in order (for names [a, b]
\* with b resolvable after 2 failed attempts: on the 3rd, when retries
\* >= 3); while a name stays unresolvable it fails after exactly
\* max(1, retries) attempts with NoSuchModuleRPCError naming that name
\* only (b for [a, b] with a resolvable).
C6_ResolveRetry == C6_Resolved /\ C6_NamesB

C6_Witness ==
    /\ ipc = "done"
    /\ iframe.modules.names = <<"a", "b">>
    /\ iframe.misses = <<"b", "b", "none">>
    /\ iframe.res.exc = "none"
    /\ Len(iframe.res.val) = 2

\* C7: importRemoteModules with an empty or non-list modules argument
\* raises its argument error before any connect call and any sleep.
C7_InvalidBeforeConnect ==
    (ipc = "done" /\ InvalidModules(iframe.modules))
    => /\ iframe.res = Raised("ValueError", "modules", <<>>)
       /\ iframe.outcomes = <<>>
       /\ iframe.slept = <<>>

C11_OpenedPortsAreServers ==
    \A a \in DOMAIN opened : DOMAIN opened[a] \subseteq DOMAIN servers

C11_Witness ==
    \E t \in callers :
       /\ pc[t] = "delserver"
       /\ HasKey(servers, frame[t].p)
       /\ \E a \in Apps : PortsOf(opened, a) # {}
       /\ \E a \in Apps : frame[t].p \in PortsOf(frame[t].pre.opened, a)

\* C12: when two threads each make startServer(app, nodup=True) for the
\* same app as their first call, in every interleaving at most one
\* listener is created and at most one port registered for the app.
C12_OneListenerPerTag ==
    \A a \in Apps :
       (\A t \in callers :
           /\ left[t] = MaxCalls - 1
           /\ frame[t].op = "start" /\ frame[t].app = a /\ frame[t].nodup)
       => /\ Len(listeners) <= 1
          /\ Cardinality(PortsOf(opened, a)) <= 1

AllAtRest == \A t \in callers : AtRest(t)

\* C13: whenever no call is in progress, every port of _SERVERS maps to a
\* listener that is bound to that port and running, and every running
\* listener that startServer created is the one _SERVERS holds for its port.
C13_ServersMatchListeners ==
    AllAtRest =>
       /\ \A p \in DOMAIN servers :
             listeners[servers[p]].port = p /\ Live(servers[p])
       /\ \A l \in LIds :
             Live(l) => /\ HasKey(servers, listeners[l].port)
                        /\ servers[listeners[l].port] = l

(***************************************************************************)
(* Further properties of importRemoteModules.                              *)
(***************************************************************************)
\* C14: an I/O error that is not a timeout, or an end of stream, on any
\* attempt of the connect loop is the last attempt: the call is over with
\* RPCConnectError ("I/O error", "EOF error"), it holds no connection, and
\* it slept only after the timeouts before that attempt.
C14_FatalConnectErrors ==
    \A k \in 1 .. Len(iframe.outcomes) :
       iframe.outcomes[k] \in {"ioerror", "eof"} =>
          /\ k = Len(iframe.outcomes)
          /\ ipc = "done"
          /\ iframe.res.exc = "RPCConnectError"
          /\ iframe.res.msg =
                (IF iframe.outcomes[k] = "eof" THEN "EOF error" ELSE "I/O error")
          /\ ~iframe.connection
          /\ Len(iframe.slept) = k - 1
          /\ iframe.misses = <<>>

C14_Witness ==
    /\ ipc = "done"
    /\ Len(iframe.outcomes) = 3
    /\ iframe.outcomes[3] = "eof"
    /\ iframe.res.msg = "EOF error"

\* the sleeps of the resolve loop: those after the sleeps of the connect loop
ResolveSleeps ==
    SubSeq(iframe.slept, Len(iframe.outcomes), Len(iframe.slept))

FailedAttempts == Len(SelectSeq(iframe.misses, LAMBDA m : m # "none"))

\* C15: in the resolve loop the wait after the k-th failed attempt that a
\* retry follows is 1, 3, 5, 10 seconds for k = 1..4 and 10 seconds for
\* every k > 4 (in tenths here), and the attempt that ends the call with
\* NoSuchModuleRPCError is followed by no wait.
C15_RetrySchedule ==
    (iframe.connection /\ ipc \in {"resolve", "done"}) =>
       /\ \A k \in 1 .. Len(ResolveSleeps) :
             ResolveSleeps[k] =
                (IF k <= 4 THEN 10 * <<1, 3, 5, 10>>[k] ELSE 100)
       /\ Len(ResolveSleeps) =
             (IF ipc = "done" /\ iframe.res.exc = "NoSuchModuleRPCError"
              THEN FailedAttempts - 1 ELSE FailedAttempts)

C15_Witness ==
    /\ ipc = "done"
    /\ iframe.res.exc = "NoSuchModuleRPCError"
    /\ FailedAttempts = 6
    /\ Len(ResolveSleeps) = 5
    /\ ResolveSleeps[5] = 100

(***************************************************************************)
(* Further properties of startServer, closeServer and closeAllServers.     *)
(***************************************************************************)
PidsBefore(t) ==
    LET o == frame[t].pre.opened
        a == frame[t].app
    IN  IF HasKey(o, a) /\ HasKey(o[a], frame[t].p)
        THEN o[a][frame[t].p] ELSE <<>>

\* the start call of t returned a listener
Started(t) == Done(t, "start") /\ Ok(t) /\ frame[t].res.val # <<>>

\* C16: when startServer returns a listener, that listener was created by
\* this call, it is bound to the port it is registered under in _SERVERS
\* (the requested port when one was given), it is the value returned, and
\* the pid of the process was appended to _OPENEDPORTS[app][port].
C16_StartRegisters ==
    \A t \in callers : Started(t) =>
       LET f == frame[t]
           l == f.res.val[1]
       IN  /\ l \in LIds /\ l > f.pre.made
           /\ HasKey(servers, f.p) /\ servers[f.p] = l
           /\ listeners[l].port = f.p
           /\ f.port # 0 => f.p = f.port
           /\ HasKey(opened, f.app) /\ HasKey(opened[f.app], f.p)
           /\ opened[f.app][f.p] = Append(PidsBefore(t), Pid)
           /\ \A q \in DOMAIN f.pre.servers :
                 q # f.p => HasKey(servers, q) /\ servers[q] = f.pre.servers[q]

C16_Witness ==
    \E t \in callers :
       /\ Started(t)
       /\ frame[t].port = 0
       /\ frame[t].pre.servers # EmptyDict
       /\ Len(opened[frame[t].app][frame[t].p]) = 1

\* the listeners _SERVERS held when the call of t began
RegisteredBefore(t) ==
    {frame[t].pre.servers[p] : p \in DOMAIN frame[t].pre.servers}

Stopped(l) == listeners[l].closed /\ listeners[l].phase = "exited"

\* C17: when closeAllServers has returned, _SERVERS is empty, no app of
\* _OPENEDPORTS lists a port, and every listener _SERVERS held when the call
\* began was closed and its thread has ended.
C17_CloseAllDrains ==
    \A t \in callers : (Done(t, "closeAll") /\ Ok(t)) =>
       /\ servers = EmptyDict
       /\ \A a \in Apps : PortsOf(opened, a) = {}
       /\ \A l \in RegisteredBefore(t) : Stopped(l)

C17_Witness ==
    \E t \in callers :
       /\ Done(t, "closeAll") /\ Ok(t)
       /\ Cardinality(RegisteredBefore(t)) = 2
       /\ \E a \in Apps : Cardinality(PortsOf(frame[t].pre.opened, a)) = 2

\* t is in closeServer (called directly or by closeAllServers) past its join
PastJoin(t) ==
    \/ frame[t].op \in {"close", "closeAll"} /\ pc[t] \in {"delapps", "delserver"}
    \/ Done(t, "close") /\ Ok(t)

C18_Joined == \A t \in callers : PastJoin(t) => Stopped(frame[t].l)

\* a step that takes a port out of _SERVERS or out of an app of _OPENEDPORTS
\* finds the listener _SERVERS holds for it closed and its thread ended
C18_RemovalAfterJoin ==
    /\ \A p \in DOMAIN servers :
          ~HasKey(servers', p) => Stopped(servers[p])
    /\ \A a \in DOMAIN opened : \A p \in DOMAIN opened[a] :
          p \notin PortsOf(opened', a) =>
             HasKey(servers, p) /\ Stopped(servers[p])

\* C18: closeServer reaches its deletions and returns only when the listener
\* it looked up was closed and the thread of that listener has ended, and
\* every step that removes a port from _OPENEDPORTS or _SERVERS comes after
\* that join.
C18_UnregisterAfterJoin == []C18_Joined /\ [][C18_RemovalAfterJoin]_vars

C18_Witness ==
    \E t \in callers :
       /\ Done(t, "close") /\ Ok(t)
       /\ HasKey(frame[t].pre.servers, frame[t].p)
       /\ ~HasKey(servers, frame[t].p)
       /\ Stopped(frame[t].l)
       /\ servers # EmptyDict

(***************************************************************************)
(* The exception classes, lines 268-303.                                   *)
(***************************************************************************)
\* RPCError and the classes derived from it
RPCErrors ==
    {"RPCError", "RPCConnectError", "UsedOrReservedRPCError",
     "CantFindScriptRPCError", "NoSuchModuleRPCError"}

\* C19: every exception that startServer, closeServer, closeAllServers,
\* portFromApp or importRemoteModules lets reach its caller is an RPCError or
\* of a class derived from RPCError, a close of an unknown port and an
\* invalid modules argument included.
C19_OnlyRPCErrors ==
    /\ \A t \in callers :
          pc[t] = "done" => frame[t].res.exc \in RPCErrors \cup {"none"}
    /\ ipc = "done" => iframe.res.exc \in RPCErrors \cup {"none"}

\* C20: whenever _bindPort is left, with a port or with
\* UsedOrReservedRPCError, the socket it created has been closed.
C20_ProbeSocketClosed ==
    \A t \in callers :
       (frame[t].op = "start" /\ frame[t].allocs > 0) =>
          frame[t].sock = "closed"

(***************************************************************************)
(* rh.app.talk: SessionBase, FileSession ("file") and PortSession ("port") *)
(* for the languages parsley and hscript.  One thread uses the session;    *)
(* the application reads the lines sent to it one at a time, answers the   *)
(* done command with the done marker, leaves on quit, and may exit at any  *)
(* moment.                                                                 *)
(***************************************************************************)
Cmds == {"c1", "c2"}

\* talk line 90
DONE_STR == "DONEXXX"

\* talk lines 97 and 101
DoneCmd == "echo DONEXXX"

\* talk lines 98 and 102
QuitCmd == "quit"

SessionError(m) == Raised("SessionError", m, <<>>)

\* talk lines 332-338
Connected == session.reader # "closed" /\ session.writer # "closed"

\* talk lines 243-256: what _send can meet.  A pipe whose reader has gone
\* fails the write (EPIPE); a socket whose peer has gone may still take the
\* bytes, which are then lost, or fail in flush
WriteOutcomes ==
    IF session.writer = "closed" THEN {"closed"}
    ELSE IF peer.up THEN {"ok"}
    ELSE IF session.kind = "file" THEN {"ioerror"}
    ELSE {"lost", "flusherror"}

\* talk lines 244, 250, 256
SendError(o) ==
    CASE o = "closed" -> SessionError("Session has closed unexpectedly.")
      [] o = "ioerror" -> SessionError("Failed to write to application")
      [] OTHER -> SessionError("Problem communicating with session")

Written(o) == o \in {"ok", "lost"}

\* talk line 248: the line reaches the application when it is running
Deliver(o, line) ==
    IF o = "ok" THEN [peer EXCEPT !.inbox = Append(@, line)] ELSE peer

TalkGoto(f, to) == tpc' = to /\ tframe' = [tframe EXCEPT !.call = f]

TalkFinish(f, r) ==
    /\ tpc' = "done"
    /\ tframe' = [tframe EXCEPT !.call = [f EXCEPT !.res = r]]

\* a call can be made on the session: the constructor returned it and no
\* call is in progress
TalkCanCall ==
    /\ tpc = "done"
    /\ tframe.left > 0
    /\ ~(tframe.call.op = "init" /\ tframe.call.res.exc # "none")

TalkCalled(f) == [tframe EXCEPT !.left = @ - 1, !.call = f]

\* talk lines 322-323: _preCommand, then _send(cmd)
CommandCall(cmd) ==
    /\ TalkCanCall
    /\ \E o \in WriteOutcomes :
          LET f == TalkFrame("command", cmd)
          IN  /\ peer' = Deliver(o, cmd)
              /\ IF Written(o)
                 THEN /\ tpc' = "senddone"
                      /\ tframe' = TalkCalled([f EXCEPT !.wrote = TRUE])
                 ELSE /\ tpc' = "done"
                      /\ tframe' = TalkCalled([f EXCEPT !.res = SendError(o)])
    /\ UNCHANGED <<regVars, impVars, session>>

\* talk lines 266-272: _receive sends the done command
SendDone ==
    /\ tpc = "senddone"
    /\ \E o \in WriteOutcomes :
          /\ peer' = Deliver(o, DoneCmd)
          /\ IF Written(o)
             THEN TalkGoto(tframe.call, "recv")
             ELSE TalkFinish(tframe.call, SendError(o))
    /\ UNCHANGED <<regVars, impVars, session>>

\* talk line 282: what readline can give.  It waits while the application
\* runs and has written nothing; at the end of the stream it returns the
\* empty string, and on a socket it may raise instead
ReadOutcomes ==
    IF peer.outbox # <<>> THEN {"line"}
    ELSE IF peer.up THEN {}
    ELSE IF session.kind = "file" THEN {"eof"}
    ELSE {"eof", "ioerror"}

\* talk lines 226-232: _postCommand(cmd, output)
PostCommand(f) ==
    IF f.op = "command"
    THEN [session EXCEPT !.lastCmd = f.cmd, !.lastResponse = f.output]
    ELSE session

\* talk lines 274-278: the head of the loop of _receive
Receive ==
    /\ tpc = "recv"
    /\ IF session.reader = "closed"
       THEN TalkFinish(tframe.call,
                       SessionError("Session has closed unexpectedly."))
       ELSE TalkGoto(tframe.call, "readline")
    /\ UNCHANGED <<regVars, impVars, session, peer>>

\* talk lines 281-301 and 328-330: readline and what the loop does with the
\* line; on the done marker the loop ends and command stores and returns
\* the output, on any other line, the empty one too, the loop goes on
ReadLine ==
    /\ tpc = "readline"
    /\ LET f == tframe.call
       IN  \E o \in ReadOutcomes :
           CASE o = "line" ->
                  /\ peer' = [peer EXCEPT !.outbox = Tail(@)]
                  /\ IF Head(peer.outbox) = DONE_STR
                     THEN /\ session' = PostCommand(f)
                          /\ TalkFinish(f, Returned(f.output))
                     ELSE /\ TalkGoto([f EXCEPT !.output =
                                 Append(@, Head(peer.outbox))], "recv")
                          /\ UNCHANGED session
             [] o = "eof" ->
                  /\ TalkGoto([f EXCEPT !.eof = TRUE], "recv")
                  /\ UNCHANGED <<session, peer>>
             [] OTHER ->
                  /\ TalkFinish(f,
                        SessionError("Failed to read from application"))
                  /\ UNCHANGED <<session, peer>>
    /\ UNCHANGED <<regVars, impVars>>

\* talk lines 422-424: FileSession.close sends quit while the writer is open
SendsQuit == session.kind = "file" /\ session.writer # "closed"

\* talk lines 418-427; a PortSession has the close of SessionBase only
CloseSession ==
    /\ TalkCanCall
    /\ LET f == TalkFrame("close", "None")
       IN  IF SendsQuit
           THEN \E o \in WriteOutcomes :
                   /\ peer' = Deliver(o, QuitCmd)
                   /\ IF Written(o)
                      THEN /\ tpc' = "closehandles"
                           /\ tframe' = [TalkCalled([f EXCEPT !.wrote = TRUE])
                                           EXCEPT !.quits = @ + 1]
                      ELSE /\ tpc' = "done"
                           /\ tframe' = TalkCalled([f EXCEPT !.res = SendError(o)])
           ELSE /\ tpc' = "closehandles"
                /\ tframe' = TalkCalled(f)
                /\ UNCHANGED peer
    /\ UNCHANGED <<regVars, impVars, session>>

\* talk lines 346-353: SessionBase.close
CloseHandles ==
    /\ tpc = "closehandles"
    /\ session' = [session EXCEPT !.reader = "closed", !.writer = "closed"]
    /\ TalkFinish(tframe.call, Returned(<<>>))
    /\ UNCHANGED <<regVars, impVars, peer>>

\* the application reads one line: the done command is echoed as the done
\* marker, quit ends it, any other command gives one line of output or none
AppStep ==
    /\ peer.up
    /\ peer.inbox # <<>>
    /\ LET c == Head(peer.inbox)
           rest == [peer EXCEPT !.inbox = Tail(@)]
       IN  CASE c = DoneCmd ->
                  peer' = [rest EXCEPT !.outbox = Append(@, DONE_STR)]
             [] c = QuitCmd ->
                  peer' = [rest EXCEPT !.up = FALSE]
             [] OTHER ->
                  \/ peer' = [rest EXCEPT !.outbox = Append(@, c)]
                  \/ peer' = rest
    /\ UNCHANGED <<regVars, impVars, session, tpc, tframe>>

\* the application exits or is killed; what it wrote stays readable
AppExit ==
    /\ peer.up
    /\ peer' = [peer EXCEPT !.up = FALSE]
    /\ UNCHANGED <<regVars, impVars, session, tpc, tframe>>

NextTalk ==
    \/ \E c \in Cmds : CommandCall(c)
    \/ SendDone
    \/ Receive
    \/ ReadLine
    \/ CloseSession
    \/ CloseHandles
    \/ AppStep
    \/ AppExit

SpecTalk == InitTalk /\ [][NextTalk]_vars

\* the thread of the caller and the application both keep running
SpecTalkLive ==
    /\ SpecTalk
    /\ WF_vars(SendDone) /\ WF_vars(Receive) /\ WF_vars(ReadLine)
    /\ WF_vars(CloseHandles) /\ WF_vars(AppStep)

(***************************************************************************)
(* Properties of the session.                                              *)
(***************************************************************************)
TalkDone(op) == tpc = "done" /\ tframe.call.op = op

TalkOk == tframe.call.res.exc = "none"

\* C21: after every command(cmd) call whose command was written to the
\* application, also when the call then failed with SessionError, lastCmd
\* is that command.
C21_LastCmdIsLastSent ==
    (TalkDone("command") /\ tframe.call.wrote) =>
       session.lastCmd = tframe.call.cmd

InCommand == tframe.call.op = "command" /\ tpc # "done"

\* C22: every command(cmd) call comes to an end, with the output or with
\* SessionError, also when the application exits or closes its end of the
\* stream before it has sent the done marker.
C22_CommandTerminates == InCommand ~> (tpc = "done")

\* C23: after a close() call the session is not connected, a command()
\* call that follows raises SessionError and writes nothing, a close()
\* call that follows changes nothing, and a FileSession has written quit at
\* most once, with its handles still open at that moment.
C23_AfterClose ==
    TalkDone("close") => ~Connected /\ tframe.quits <= 1

C23_LaterCalls ==
    (TalkDone("close") /\ tpc' # tpc) =>
       /\ peer' = peer
       /\ session' = session
       /\ tframe'.call.op = "command" =>
             tpc' = "done" /\ tframe'.call.res.exc = "SessionError"

C23_QuitBeforeClose ==
    tframe'.quits # tframe.quits => Connected /\ tframe'.quits = 1

C23_ClosedStaysClosed ==
    /\ []C23_AfterClose
    /\ [][C23_LaterCalls /\ C23_QuitBeforeClose]_vars

(***************************************************************************)
(* Further properties of importRemoteModules.                              *)
(***************************************************************************)
InImport == ipc \notin {"idle", "done"}

\* the call got as far as the resolve loop
ReachedResolve ==
    /\ iframe.connection
    /\ ~InvalidModules(iframe.modules)
    /\ ipc = "done"

C24_AttemptBounds ==
    /\ Len(iframe.misses) <= (IF iframe.arg < 1 THEN 1 ELSE iframe.arg)
    /\ ReachedResolve => Len(iframe.misses) >= 1

\* C24: the resolve loop makes at least 1 and at most max(1, retries)
\* attempts for every integer retries, 0 and negative values behaving as
\* 1, and every call of importRemoteModules ends, with a result or with an
\* error.
C24_BoundedAttempts ==
    /\ []C24_AttemptBounds
    /\ InImport ~> (ipc = "done")

C24_Witness ==
    /\ ReachedResolve
    /\ iframe.arg < 1
    /\ Len(iframe.misses) = 1
    /\ iframe.res.exc = "NoSuchModuleRPCError"

ImportOk == ipc = "done" /\ iframe.res.exc = "none" /\ iframe.misses # <<>>

C25_Result ==
    ImportOk =>
       LET names == iframe.modules.names
           refs == iframe.res.val
       IN  /\ iframe.connection
           /\ Len(refs) = Len(names)
           /\ \A k \in 1 .. Len(names) :
                 /\ refs[k].module = names[k]
                 /\ refs[k].attempt = Len(iframe.misses)

\* an attempt fails on the first name, in the order given, that the server
\* cannot resolve at that moment, whatever earlier attempts resolved
C25_Attempt ==
    Len(iframe'.misses) = Len(iframe.misses) + 1 =>
       LET names == iframe.modules.names
           bad == {k \in 1 .. Len(names) : names[k] \notin avail}
           n == Len(iframe'.misses)
       IN  iframe'.misses[n] =
              (IF bad = {} THEN "none"
               ELSE names[CHOOSE k \in bad : \A j \in bad : k <= j])

\* C25: every resolve attempt resolves all the names again, in the order
\* given, and a successful call returns with the connection open and one
\* reference per name, in that order, all from the one successful attempt.
C25_WholeBatch == []C25_Result /\ [][C25_Attempt]_vars

C25_Witness ==
    /\ ImportOk
    /\ iframe.modules.names = <<"a", "b">>
    /\ iframe.misses = <<"a", "b", "none">>

\* C26: a connect attempt made while the listener of the server has been
\* created and its thread has not started accepting does not end the call
\* with RPCConnectError as long as attempts remain: the call goes on to an
\* attempt that finds the listener accepting.
C26_StartupRace ==
    [][(/\ ipc = "connect"
        /\ remote = "starting"
        /\ iframe.tries < MAX_TRIES)
       => ~(ipc' = "done" /\ iframe'.res.exc = "RPCConnectError")]_vars

(***************************************************************************)
(* Further properties of startServer and closeServer.                      *)
(***************************************************************************)
\* the call of t is startServer(app, nodup=True) for an app whose ports had
\* all been closed when it began
RestartCall(t) ==
    /\ frame[t].op = "start" /\ frame[t].nodup
    /\ HasKey(frame[t].pre.opened, frame[t].app)
    /\ DOMAIN frame[t].pre.opened[frame[t].app] = {}

\* C27: startServer(app, nodup=True) for an app whose ports have all been
\* closed is not suppressed: it goes on to bind, and when it returns it
\* returns a new listener registered for the app.
C27_RestartAfterClose ==
    \A t \in callers : (RestartCall(t) /\ Done(t, "start") /\ Ok(t)) =>
       /\ frame[t].res.val # <<>>
       /\ frame[t].allocs = 1
       /\ frame[t].res.val[1] > frame[t].pre.made
       /\ servers[frame[t].p] = frame[t].res.val[1]
       /\ frame[t].p \in PortsOf(opened, frame[t].app)

C27_Witness ==
    \E t \in callers :
       /\ RestartCall(t) /\ Started(t)
       /\ listeners[1].closed
       /\ Live(frame[t].res.val[1])

C28_UnknownPort ==
    \A t \in callers :
       (Done(t, "close") /\ ~HasKey(frame[t].pre.servers, frame[t].p)) =>
          /\ ~Ok(t)
          /\ SameRegistries(t)
          /\ SameListeners(t)

C28_OtherPorts ==
    \A t \in callers : (Done(t, "close") /\ Ok(t)) =>
       LET f == frame[t]
       IN  /\ DOMAIN servers = DOMAIN f.pre.servers \ {f.p}
           /\ \A q \in DOMAIN servers : servers[q] = f.pre.servers[q]
           /\ DOMAIN opened = DOMAIN f.pre.opened
           /\ \A a \in DOMAIN opened :
                 /\ DOMAIN opened[a] = DOMAIN f.pre.opened[a] \ {f.p}
                 /\ \A q \in DOMAIN opened[a] :
                       opened[a][q] = f.pre.opened[a][q]
           /\ Len(listeners) = f.pre.made
           /\ ClosedSet = f.pre.closed \cup {f.pre.servers[f.p]}

\* C28: closeServer(port) for a port that is not in _SERVERS fails and
\* leaves _SERVERS, _OPENEDPORTS and every listener as they were; a
\* closeServer(port) that returns leaves the entries and the listeners of
\* every other port as they were.
C28_CloseFrame == C28_UnknownPort /\ C28_OtherPorts

C28_Witness ==
    \E t \in callers :
       /\ Done(t, "close") /\ Ok(t)
       /\ servers # EmptyDict
       /\ \E a \in Apps : PortsOf(opened, a) # {}
       /\ \E l \in LIds : Live(l)

C28_WitnessUnknown ==
    \E t \in callers :
       /\ Done(t, "close") /\ ~Ok(t)
       /\ servers # EmptyDict

\* C29: a startServer call that fails, in _bindPort or after all its
\* attempts, leaves _SERVERS and _OPENEDPORTS as they were before the call
\* and has made no listener.
C29_FailedStartFrame ==
    \A t \in callers : (Done(t, "start") /\ ~Ok(t)) =>
       /\ frame[t].res.exc \in {"UsedOrReservedRPCError", "RPCError"}
       /\ SameRegistries(t)
       /\ SameListeners(t)

C29_Witness ==
    \E t \in callers :
       /\ Done(t, "start")
       /\ frame[t].res.exc = "RPCError"
       /\ Len(frame[t].tried) = 5
       /\ servers # EmptyDict

\* C30: when importRemoteModules ends with an exception, the connection it
\* may have made has been closed: an open connection is left by the call
\* only when the call returns it.
C30_NoLeakedConnection ==
    (ipc = "done" /\ iframe.res.exc # "none") => ~iframe.connection

====
